---- MODULE Spec2Model ----
(***************************************************************************)
(* A model of flake8_eyeo.py: the TreeVisitor (block analysis, scope       *)
(* stack, comparison and literal rules) and the two token-line checks.     *)
(*                                                                         *)
(* Findings are records [node, code, arg]: the node the finding is         *)
(* attached to, the message's code and the part of the message that        *)
(* varies, a sequence of strings (a statement kind, a name).               *)
(*                                                                         *)
(* A node of the syntax tree is named by its path from the module: the     *)
(* sequence of child positions that leads to it.                           *)
(***************************************************************************)
EXTENDS Integers, Sequences, FiniteSets, TLC

VARIABLES
    pc,          \* position of the operation under way
    errors,      \* self.errors, the findings appended so far
    nodes,       \* _visit_block: the block, a sequence of statements
    flags,       \* _visit_block: the keyword arguments of the call
    locals,      \* _visit_block: i, pass_node, has_non_pass, leave_node, dead_code
    hash_nodes,  \* _visit_hash_keys: the keys of the literal
    hash_locals, \* _visit_hash_keys: position, keys, namespace
    cmp_node,    \* visit_Compare: the comparison
    cmp_locals,  \* visit_Compare: position in zip(ops, comparators), left
    stack,       \* the tree pass: the nodes whose children are being visited
    scope_stack, \* self.scope_stack
    nstmts,      \* the tree pass: statements of the tree read so far
    mark,        \* the tree pass: Len(errors) before the last step
    current,     \* the tree pass: the node the last step handled
    stored,      \* the tree pass: the _visit_stored_name calls of the last step
    visited,     \* the tree pass: the nodes the last step visited
    completed,   \* the tree pass: the scope _visit_with_scope returned last
    paren_tokens,      \* check_redundant_parenthesis: tokens
    paren_locals,      \* check_redundant_parenthesis: i, level, statement, pos
    quote_tokens,      \* check_quotes: tokens
    previous_logical,  \* check_quotes: the words of the previous logical line
    checker_state,     \* check_quotes: the keys of checker_state that are set
    version_info,      \* check_quotes: sys.version_info[0]
    quote_locals       \* check_quotes: position in tokens, first_token

blockVars == <<nodes, flags, locals>>
hashVars == <<hash_nodes, hash_locals>>
cmpVars == <<cmp_node, cmp_locals>>
treeVars == <<stack, scope_stack, nstmts, mark, current, stored, visited, completed>>

parenVars == <<paren_tokens, paren_locals>>
quoteVars == <<quote_tokens, previous_logical, checker_state, version_info, quote_locals>>

vars == <<pc, errors, blockVars, hashVars, cmpVars, treeVars, parenVars, quoteVars>>

\* what the steps of one operation leave alone: the other operations
notBlock == <<hashVars, cmpVars, treeVars, parenVars, quoteVars>>
notHash == <<blockVars, cmpVars, treeVars, parenVars, quoteVars>>
notCompare == <<blockVars, hashVars, treeVars, parenVars, quoteVars>>
notTree == <<blockVars, hashVars, cmpVars, parenVars, quoteVars>>
notParen == <<blockVars, hashVars, cmpVars, treeVars, quoteVars>>
notQuotes == <<blockVars, hashVars, cmpVars, treeVars, parenVars>>

----------------------------------------------------------------------------
(* Bounds of the model.                                                    *)

\* longest block handed to _visit_block on its own
MaxBlock == 3

\* most keys of a mapping or set literal
MaxKeys == 3

\* most operators of a comparison chain
MaxOps == 2

\* most statements of a module's tree
MaxStmts == 3

\* most words of a line handed to check_redundant_parenthesis
MaxTokens == 5

\* most string literals of a line handed to check_quotes
MaxStrings == 1

----------------------------------------------------------------------------
(* Helpers.                                                                *)

Error(node, code, arg) == [node |-> node, code |-> code, arg |-> arg]

RECURSIVE SeqsUpTo(_, _)
\* all sequences over S of length 0..n
SeqsUpTo(S, n) ==
    IF n = 0 THEN {<<>>}
    ELSE LET shorter == SeqsUpTo(S, n - 1)
         IN  shorter \cup {Append(s, x) : s \in {t \in shorter : Len(t) = n - 1}, x \in S}

\* the findings of `errs` with code `code`
WithCode(errs, code) == SelectSeq(errs, LAMBDA e : e.code = code)

Range(s) == {s[i] : i \in DOMAIN s}

----------------------------------------------------------------------------
(* Statements as _visit_block sees them: the node's type and, for an       *)
(* expression statement, the type of its value.                            *)

LEAVE_BLOCK == {"Return", "Raise", "Continue", "Break"}

Stmt(type, value) == [type |-> type, value |-> value]

BlockStmts ==
    {Stmt(t, "None") : t \in LEAVE_BLOCK \cup {"Pass", "Assign"}}
        \cup {Stmt("Expr", v) : v \in {"Str", "Call", "Yield", "Name"}}

\* get_statement: the lower-cased type name of a node
get_statement(type) ==
    CASE type = "Return" -> "return"
      [] type = "Raise" -> "raise"
      [] type = "Continue" -> "continue"
      [] type = "Break" -> "break"
      [] type = "Global" -> "global"
      [] type = "Nonlocal" -> "nonlocal"
      [] OTHER -> "other"

\* the keyword arguments of _visit_block at the call sites of the visitor
Flags(block_required, nodes_required, docstring, can_have_unused_expr) ==
    [block_required |-> block_required, nodes_required |-> nodes_required,
     docstring |-> docstring, can_have_unused_expr |-> can_have_unused_expr]

CallSites ==
    {Flags(b, TRUE, FALSE, FALSE) : b \in BOOLEAN}       \* if body / else, for, while
        \cup {Flags(FALSE, TRUE, FALSE, c) : c \in BOOLEAN}  \* try body / finally
        \cup {Flags(TRUE, FALSE, TRUE, FALSE),               \* module body
              Flags(TRUE, TRUE, TRUE, FALSE)}                \* function / class body

\* the local variables of _visit_block before its loop; 0 stands for None
BlockLocals ==
    [i |-> 1, pass_node |-> 0, has_non_pass |-> FALSE, leave_node |-> 0,
     dead_code |-> FALSE, errs |-> <<>>]

\* a faulty variant: dead_code is never set, every dead statement is reported
VisitBlockIterNoFlag(s, ns, fl) ==
    LET i == s.i
        node == ns[i]
        dead == s.leave_node # 0 /\ ~s.dead_code
        errs1 == IF dead
                 THEN Append(s.errs, Error(i, "A202", <<get_statement(ns[s.leave_node].type)>>))
                 ELSE s.errs
        unused == /\ ~(fl.can_have_unused_expr \/ node.type # "Expr")
                  /\ ~(fl.docstring /\ i = 1 /\ node.value = "Str")
                  /\ node.value \notin {"Call", "Yield"}
    IN  [i |-> i + 1,
         pass_node |-> IF node.type = "Pass" THEN i ELSE s.pass_node,
         has_non_pass |-> s.has_non_pass \/ node.type # "Pass",
         leave_node |-> IF node.type \in LEAVE_BLOCK THEN i ELSE s.leave_node,
         dead_code |-> s.dead_code,
         errs |-> IF unused THEN Append(errs1, Error(i, "A203", <<>>)) ELSE errs1]

\* one iteration of the loop of _visit_block, on statement s.i of ns
VisitBlockIter(s, ns, fl) ==
    LET i == s.i
        node == ns[i]
        dead == s.leave_node # 0 /\ ~s.dead_code
        errs1 == IF dead
                 THEN Append(s.errs, Error(i, "A202", <<get_statement(ns[s.leave_node].type)>>))
                 ELSE s.errs
        unused == /\ ~(fl.can_have_unused_expr \/ node.type # "Expr")
                  /\ ~(fl.docstring /\ i = 1 /\ node.value = "Str")
                  /\ node.value \notin {"Call", "Yield"}
    IN  [i |-> i + 1,
         pass_node |-> IF node.type = "Pass" THEN i ELSE s.pass_node,
         has_non_pass |-> s.has_non_pass \/ node.type # "Pass",
         leave_node |-> IF node.type \in LEAVE_BLOCK THEN i ELSE s.leave_node,
         dead_code |-> s.dead_code \/ dead,
         errs |-> IF unused THEN Append(errs1, Error(i, "A203", <<>>)) ELSE errs1]

\* a faulty variant: a function body's pass is reported like that of any block
VisitBlockEndAnyBlock(s, ns, fl) ==
    IF s.pass_node = 0 THEN s.errs
    ELSE s.errs \o <<Error(s.pass_node, "A204", <<>>), Error(s.pass_node, "A205", <<>>)>>

\* the part of _visit_block after its loop: the findings about pass
VisitBlockEnd(s, ns, fl) ==
    IF s.pass_node = 0 THEN s.errs
    ELSE LET errs1 == IF ~fl.nodes_required \/ Len(ns) > 1
                      THEN Append(s.errs, Error(s.pass_node, "A204", <<>>))
                      ELSE s.errs
         IN  IF ~fl.block_required /\ ~s.has_non_pass
             THEN Append(errs1, Error(s.pass_node, "A205", <<>>))
             ELSE errs1

RECURSIVE VisitBlockLoop(_, _, _)
VisitBlockLoop(s, ns, fl) ==
    IF s.i > Len(ns) THEN s ELSE VisitBlockLoop(VisitBlockIter(s, ns, fl), ns, fl)

\* _visit_block as a whole: the findings it appends, attached to positions
\* of the block
_visit_block(ns, fl) == VisitBlockEnd(VisitBlockLoop(BlockLocals, ns, fl), ns, fl)

----------------------------------------------------------------------------
(* Expressions.  A node is a record [type, id, n, ctx, ops, kids]: id is   *)
(* a Name's id, an arg's name or an Attribute's attr, n a number's value,  *)
(* ctx a Name's context, ops a Compare's operators, kids the child nodes   *)
(* in field order.                                                         *)

Node(type, id, n, ctx, ops, kids) ==
    [type |-> type, id |-> id, n |-> n, ctx |-> ctx, ops |-> ops, kids |-> kids]

Num(n) == Node("Num", "", n, "", <<>>, <<>>)
Name(id, ctx) == Node("Name", id, 0, ctx, <<>>, <<>>)
Attribute(value, attr) == Node("Attribute", attr, 0, "Load", <<>>, <<value>>)
List(elts) == Node("List", "", 0, "Load", <<>>, elts)
Arg(name) == Node("arg", name, 0, "", <<>>, <<>>)
\* kids: node.func, then node.args
Call(func, args) == Node("Call", "", 0, "", <<>>, <<func>> \o args)
\* kids: node.left, then node.comparators
Compare(left, ops, comparators) == Node("Compare", "", 0, "", ops, <<left>> \o comparators)
\* kids: node.keys, then node.values; n is the number of keys
Dict(keys, values) == Node("Dict", "", Len(keys), "", <<>>, keys \o values)
Set(elts) == Node("Set", "", Len(elts), "", <<>>, elts)
\* kids: the args of node.args, then node.body; n is the number of args
Lambda(args, body) == Node("Lambda", "", Len(args), "", <<>>, args \o <<body>>)

(* Folded values: [kind, val].  Python's True is the integer 1 and equal   *)
(* to it; an object() is equal to itself alone.                            *)
VOLATILE == [kind |-> "VOLATILE", val |-> 0]
PyInt(n) == [kind |-> "int", val |-> n]
NoneValue == [kind |-> "NoneType", val |-> 0]
Object(k) == [kind |-> "object", val |-> k]
Builtin(k) == [kind |-> "builtin", val |-> k]

\* a == b of Python on folded values
PyEq(a, b) == a.kind = b.kind /\ a.val = b.val

(* A namespace: the names it holds, whether a missing name is created on   *)
(* lookup (collections.defaultdict(object, ...)) and how many were.        *)
ConstNamespace ==
    [names |-> ("True" :> PyInt(1)) @@ ("False" :> PyInt(0)) @@ ("None" :> NoneValue),
     default |-> FALSE, count |-> 0]

BuiltinsNamespace ==
    [names |-> ("True" :> PyInt(1)) @@ ("False" :> PyInt(0)) @@ ("None" :> NoneValue)
                 @@ ("list" :> Builtin(1)) @@ ("dict" :> Builtin(2))
                 @@ ("set" :> Builtin(3)) @@ ("tuple" :> Builtin(4)),
     default |-> TRUE, count |-> 0]

Folded(value, namespace) == [value |-> value, namespace |-> namespace]

RECURSIVE evaluate(_, _)
RECURSIVE EvaluateAll(_, _, _)

\* the elements of a list display, left to right; the first failure ends it
EvaluateAll(elts, acc, namespace) ==
    IF elts = <<>> THEN Folded([kind |-> "list", val |-> acc], namespace)
    ELSE LET r == evaluate(Head(elts), namespace)
         IN  IF r.value = VOLATILE THEN r
             ELSE EvaluateAll(Tail(elts), Append(acc, r.value), r.namespace)

(* evaluate: eval() of the expression in the namespace; any exception      *)
(* gives VOLATILE.  The namespace is returned as the evaluation left it.   *)
(* Defined on the expressions the model folds: numbers, names, attribute   *)
(* access on a name (of an attribute the value lacks) and list displays.   *)
evaluate(node, namespace) ==
    CASE node.type = "Num" -> Folded(PyInt(node.n), namespace)
      [] node.type = "Name" ->
            IF node.id \in DOMAIN namespace.names
            THEN Folded(namespace.names[node.id], namespace)
            ELSE IF namespace.default
            THEN LET obj == Object(namespace.count + 1)
                 IN  Folded(obj, [namespace EXCEPT
                                    !.names = (node.id :> obj) @@ @,
                                    !.count = @ + 1])
            ELSE Folded(VOLATILE, namespace)          \* NameError
      [] node.type = "Attribute" ->                   \* AttributeError
            Folded(VOLATILE, evaluate(node.kids[1], namespace).namespace)
      [] node.type = "List" -> EvaluateAll(node.kids, <<>>, namespace)

is_const(node) == evaluate(node, ConstNamespace).value # VOLATILE

\* get_identifier: the dotted name as a sequence, <<>> for None
get_identifier(node) ==
    IF node.type = "Name" THEN <<node.id>>
    ELSE IF node.type = "Attribute" /\ node.kids[1].type = "Name"
    THEN <<node.kids[1].id, node.id>>
    ELSE <<>>

DISCOURAGED_APIS ==
    (<<"re", "match">> :> <<"re", "search">>)
        @@ (<<"codecs", "open">> :> <<"io", "open">>)

_check_deprecated(node, name) ==
    IF name \in DOMAIN DISCOURAGED_APIS
    THEN <<Error(node, "A301", DISCOURAGED_APIS[name] \o name)>>
    ELSE <<>>

----------------------------------------------------------------------------
(* _visit_hash_keys.                                                       *)

HashLocals == [i |-> 1, keys |-> <<>>, namespace |-> BuiltinsNamespace, errs |-> <<>>]

\* a faulty variant: a key that does not fold is compared like any other
HashKeysIterNoSkip(s, ns, path, what) ==
    LET r == evaluate(ns[s.i], s.namespace)
        key == r.value
        next == [s EXCEPT !.i = @ + 1, !.namespace = r.namespace]
    IN  IF \E k \in Range(s.keys) : PyEq(k, key)
        THEN [next EXCEPT !.errs = Append(@, Error(Append(path, s.i), "A207", <<what>>))]
        ELSE [next EXCEPT !.keys = Append(@, key)]

\* one iteration of the loop of _visit_hash_keys, on key s.i of ns
HashKeysIter(s, ns, path, what) ==
    LET r == evaluate(ns[s.i], s.namespace)
        key == r.value
        next == [s EXCEPT !.i = @ + 1, !.namespace = r.namespace]
    IN  IF key = VOLATILE THEN next
        ELSE IF \E k \in Range(s.keys) : PyEq(k, key)
        THEN [next EXCEPT !.errs = Append(@, Error(Append(path, s.i), "A207", <<what>>))]
        ELSE [next EXCEPT !.keys = Append(@, key)]

RECURSIVE HashKeysLoop(_, _, _, _)
HashKeysLoop(s, ns, path, what) ==
    IF s.i > Len(ns) THEN s
    ELSE HashKeysLoop(HashKeysIter(s, ns, path, what), ns, path, what)

\* _visit_hash_keys as a whole: the findings it appends; the keys are the
\* children 1..Len(ns) of the literal at `path`
_visit_hash_keys(ns, path, what) == HashKeysLoop(HashLocals, ns, path, what).errs

----------------------------------------------------------------------------
(* visit_Compare, before its generic_visit.                                *)

\* cmp_locals before the loop: left = node.left, the child 1 of the node
CompareLocals == [i |-> 1, left |-> 1, errs |-> <<>>]

\* a faulty variant: the constant is wanted first whatever the operator
CompareIterAnyOp(s, node, path) ==
    LET op == node.ops[s.i]
        left == node.kids[s.left]
        right == node.kids[s.i + 1]
        membership == op \in {"In", "NotIn"}
        errs1 == IF membership /\ right.type \in {"Tuple", "List"}
                 THEN Append(s.errs, Error(Append(path, s.i + 1), "A102", <<>>))
                 ELSE s.errs
    IN  [i |-> s.i + 1,
         left |-> s.i + 1,
         errs |-> IF is_const(left) /\ ~is_const(right)
                  THEN Append(errs1, Error(Append(path, s.left), "A103", <<>>))
                  ELSE errs1]

\* one iteration of: for op, right in zip(node.ops, node.comparators)
CompareIter(s, node, path) ==
    LET op == node.ops[s.i]
        left == node.kids[s.left]
        right == node.kids[s.i + 1]
        single == Len(node.ops) = 1
        membership == op \in {"In", "NotIn"}
        symmetric == op \in {"Eq", "NotEq", "Is", "IsNot"}
        errs1 == IF membership /\ right.type \in {"Tuple", "List"}
                 THEN Append(s.errs, Error(Append(path, s.i + 1), "A102", <<>>))
                 ELSE s.errs
        consts_first == (single /\ ~membership) \/ symmetric
    IN  [i |-> s.i + 1,
         left |-> s.i + 1,
         errs |-> IF consts_first /\ is_const(left) /\ ~is_const(right)
                  THEN Append(errs1, Error(Append(path, s.left), "A103", <<>>))
                  ELSE errs1]

RECURSIVE CompareLoop(_, _, _)
CompareLoop(s, node, path) ==
    IF s.i > Len(node.ops) THEN s ELSE CompareLoop(CompareIter(s, node, path), node, path)

\* the findings of visit_Compare about the node at `path`
visit_Compare(node, path) == CompareLoop(CompareLocals, node, path).errs

----------------------------------------------------------------------------
(* visit_Call, before its generic_visit.                                   *)

visit_Call(node, path) ==
    LET func == get_identifier(node.kids[1])
        args == Tail(node.kids)
        arg == IF args = <<>> THEN Node("None", "", 0, "", <<>>, <<>>) ELSE args[1]
        lambda == /\ arg.type = "Lambda"
                  /\ Len(args) = 2
                  /\ func \in {<<"map">>, <<"filter">>, <<"imap">>, <<"ifilter">>,
                               <<"itertools", "imap">>, <<"itertools", "ifilter">>}
        redundant_literal ==
            CASE arg.type = "Lambda" -> FALSE
              [] arg.type \in {"List", "Tuple"} ->
                    IF func = <<"dict">>
                    THEN \A k \in DOMAIN arg.kids : arg.kids[k].type \in {"Tuple", "List"}
                    ELSE func \in {<<"list">>, <<"set">>, <<"tuple">>}
              [] arg.type \in {"ListComp", "GeneratorExp"} ->
                    IF func = <<"dict">>
                    THEN arg.kids[1].type \in {"Tuple", "List"}
                    ELSE func \in {<<"list">>, <<"set">>}
              [] OTHER -> FALSE
    IN  (IF lambda THEN <<Error(path, "A104", func)>> ELSE <<>>)
            \o (IF redundant_literal THEN <<Error(path, "A105", func)>> ELSE <<>>)
            \o _check_deprecated(path, func)

----------------------------------------------------------------------------
(* The scope stack.  A Scope is [node, names, globals]: node is the type   *)
(* of the node that opened it, globals the declarations recorded in it,    *)
(* each [node, type, names].                                               *)

ScopeTypes == {"Module", "FunctionDef", "ClassDef"}

Scope(node) == [node |-> node, names |-> {}, globals |-> <<>>]

\* the names of dir(builtins) the model binds; none is of the excluded five
ESSENTIAL_BUILTINS == {"list", "dict", "set", "tuple", "True", "False", "None"}

(* What visiting a subtree does: the findings appended, the calls of       *)
(* _visit_stored_name made, [node, name] each, and the nodes visited.      *)
Result(errs, calls, seen) == [errs |-> errs, stored |-> calls, visited |-> seen]

Then(r1, r2) ==
    Result(r1.errs \o r2.errs, r1.stored \o r2.stored, r1.visited \o r2.visited)

\* a faulty variant: a built-in's name is reported in any scope
StoredNameAnyScope(node, name, scope) ==
    Result(IF name \in ESSENTIAL_BUILTINS
           THEN <<Error(node, "A302", <<name>>)>>
           ELSE <<>>,
           <<[node |-> node, name |-> name]>>, <<>>)

\* _visit_stored_name, `scope` being self.scope_stack[-1]; the caller adds
\* the name to scope.names
_visit_stored_name(node, name, scope) ==
    Result(IF name \in ESSENTIAL_BUILTINS /\ scope.node = "FunctionDef"
           THEN <<Error(node, "A302", <<name>>)>>
           ELSE <<>>,
           <<[node |-> node, name |-> name]>>, <<>>)

\* scope.names.add(name), for the names a visit stored
AddNames(scope_stack_, stored_) ==
    [scope_stack_ EXCEPT ![Len(scope_stack_)].names =
        @ \cup {stored_[k].name : k \in DOMAIN stored_}]

\* a faulty variant: the scope stays on the stack
PopScopeNot(scope_stack_) == scope_stack_

\* del self.scope_stack[-1]
PopScope(scope_stack_) == SubSeq(scope_stack_, 1, Len(scope_stack_) - 1)

RECURSIVE visit(_, _, _)
RECURSIVE VisitAll(_, _, _, _)

\* the children kids[k..] of the node at `path`, in order
VisitAll(kids, k, path, scope) ==
    IF k > Len(kids) THEN Result(<<>>, <<>>, <<>>)
    ELSE Then(visit(kids[k], Append(path, k), scope),
              VisitAll(kids, k + 1, path, scope))

\* NodeVisitor.generic_visit: every child, in field order
generic_visit(node, path, scope) == VisitAll(node.kids, 1, path, scope)

\* NodeVisitor.visit of an expression or arg node: the visitor method of
\* its type, generic_visit if there is none
visit(node, path, scope) ==
    LET self == Result(<<>>, <<>>, <<path>>)
        Errs(errs) == Result(errs, <<>>, <<>>)
    IN  CASE node.type = "Name" ->
                IF node.ctx \in {"Store", "Param"}
                THEN Then(self, _visit_stored_name(path, node.id, scope))
                ELSE self
          [] node.type = "arg" ->
                Then(self, _visit_stored_name(path, node.id, scope))
          [] node.type = "Call" ->
                Then(Then(self, Errs(visit_Call(node, path))),
                     generic_visit(node, path, scope))
          [] node.type = "Compare" ->
                Then(Then(self, Errs(visit_Compare(node, path))),
                     generic_visit(node, path, scope))
          [] node.type = "Dict" ->
                Then(self, Errs(_visit_hash_keys(SubSeq(node.kids, 1, node.n),
                                                 path, "key in dict")))
          [] node.type = "Set" ->
                Then(self, Errs(_visit_hash_keys(node.kids, path, "item in set")))
          [] OTHER -> Then(self, generic_visit(node, path, scope))

RECURSIVE Flatten(_)
\* for declaration in scope.globals: for name in declaration.names
Flatten(globals) ==
    IF globals = <<>> THEN <<>>
    ELSE [k \in 1..Len(Head(globals).names) |->
             [declaration |-> Head(globals), name |-> Head(globals).names[k]]]
         \o Flatten(Tail(globals))

\* a faulty variant: a repeated declaration of a bound name is accepted again
RedundantUnbound(name, scope, global_names) == name \notin scope.names

\* if name not in scope.names or name in global_names
Redundant(name, scope, global_names) ==
    name \notin scope.names \/ name \in global_names

RECURSIVE DeclarationsLoop(_, _, _, _)
\* the loop of visit_FunctionDef over the declarations of the scope that
\* _visit_with_scope returned
DeclarationsLoop(todo, scope, global_names, errs) ==
    IF todo = <<>> THEN errs
    ELSE LET d == Head(todo)
         IN  IF Redundant(d.name, scope, global_names)
             THEN DeclarationsLoop(Tail(todo), scope, global_names,
                      Append(errs, Error(d.declaration.node, "A201",
                                         <<get_statement(d.declaration.type), d.name>>)))
             ELSE DeclarationsLoop(Tail(todo), scope, global_names \cup {d.name}, errs)

\* the findings of _visit_block on the children off+1.. of the node at path
BlockErrors(ns, fl, path, off) ==
    LET errs == _visit_block(ns, fl)
    IN  [k \in 1..Len(errs) |-> [errs[k] EXCEPT !.node = Append(path, @ + off)]]

\* the first child of `body` that leaves the block, 0 if none does
FirstLeaveOf(body) ==
    IF \E i \in DOMAIN body : body[i].type \in LEAVE_BLOCK
    THEN CHOOSE i \in DOMAIN body :
            /\ body[i].type \in LEAVE_BLOCK
            /\ \A j \in 1..i - 1 : body[j].type \notin LEAVE_BLOCK
    ELSE 0

\* _check_redundant_else; handlers are the bodies, `first` the node of
\* node.orelse[0]
_check_redundant_else(orelse, first, handlers, clause) ==
    IF orelse = <<>> THEN <<>>
    ELSE IF \E h \in DOMAIN handlers : FirstLeaveOf(handlers[h]) = 0 THEN <<>>
    ELSE LET last == handlers[Len(handlers)]
             leave_node == last[FirstLeaveOf(last)]
         IN  <<Error(first, "A206", <<get_statement(leave_node.type), clause>>)>>

----------------------------------------------------------------------------
(* Tokens of a logical line.  A token is [kind, token, start, end]; start  *)
(* and end are <<row, column>>, the column of a token being its position   *)
(* in the line.                                                            *)

Token(kind, token, start, end) ==
    [kind |-> kind, token |-> token, start |-> start, end |-> end]

\* tokens[k][:2]
Is(tokens, k, kind, token) == tokens[k].kind = kind /\ tokens[k].token = token

----------------------------------------------------------------------------
(* check_redundant_parenthesis.                                            *)

ParenLocals ==
    [i |-> 1, level |-> 0, statement |-> "None", pos |-> <<0, 0>>,
     out |-> "loop", result |-> <<>>]

\* a faulty variant: the parenthesis is reported whatever follows it
ParenIterAnyNext(s, tokens) ==
    LET t == tokens[s.i]
        start_line == tokens[1].start[1]
        next == [s EXCEPT !.i = @ + 1]
        break == [s EXCEPT !.out = "break"]
    IN  IF t.kind \in {"INDENT", "DEDENT"} THEN next
        ELSE IF s.statement = "None"
        THEN IF t.kind # "NAME" \/ t.token \notin {"if", "elif", "while"} THEN break
             ELSE IF ~Is(tokens, s.i + 1, "OP", "(") THEN break
             ELSE IF Is(tokens, s.i + 2, "OP", ")") THEN break
             ELSE [next EXCEPT !.statement = t.token, !.pos = tokens[s.i + 1].start]
        ELSE IF t.end[1] > start_line THEN break
        ELSE IF t.kind # "OP" THEN next
        ELSE CASE t.token = "," -> IF s.level = 1 THEN break ELSE next
               [] t.token = "(" -> [next EXCEPT !.level = @ + 1]
               [] t.token = ")" ->
                    IF s.level - 1 # 0 THEN [next EXCEPT !.level = @ - 1]
                    ELSE [s EXCEPT !.level = 0, !.out = "return",
                                   !.result = <<Error(s.pos, "A111", <<s.statement>>)>>]
               [] OTHER -> next

\* one iteration of: for i, (kind, token, _, end, _) in enumerate(tokens)
ParenIter(s, tokens) ==
    LET t == tokens[s.i]
        start_line == tokens[1].start[1]
        next == [s EXCEPT !.i = @ + 1]
        break == [s EXCEPT !.out = "break"]
    IN  IF t.kind \in {"INDENT", "DEDENT"} THEN next
        ELSE IF s.statement = "None"
        THEN IF t.kind # "NAME" \/ t.token \notin {"if", "elif", "while"} THEN break
             ELSE IF ~Is(tokens, s.i + 1, "OP", "(") THEN break
             ELSE IF Is(tokens, s.i + 2, "OP", ")") THEN break
             ELSE [next EXCEPT !.statement = t.token, !.pos = tokens[s.i + 1].start]
        ELSE IF t.end[1] > start_line THEN break
        ELSE IF t.kind # "OP" THEN next
        ELSE CASE t.token = "," -> IF s.level = 1 THEN break ELSE next
               [] t.token = "(" -> [next EXCEPT !.level = @ + 1]
               [] t.token = ")" ->
                    IF s.level - 1 # 0 THEN [next EXCEPT !.level = @ - 1]
                    ELSE IF ~Is(tokens, s.i + 1, "OP", ":")
                    THEN [s EXCEPT !.level = 0, !.out = "break"]
                    ELSE [s EXCEPT !.level = 0, !.out = "return",
                                   !.result = <<Error(s.pos, "A111", <<s.statement>>)>>]
               [] OTHER -> next

----------------------------------------------------------------------------
(* check_quotes.  The token field of a token is its text, character by     *)
(* character; a name or operator is one unit.                              *)

QuoteChars == {"'", "\""}

PrefixChars == {"r", "u", "b", "R", "U", "B"}

\* str.lower, on the characters of a prefix
Lower(chars) ==
    [k \in DOMAIN chars |->
        CASE chars[k] = "R" -> "r"
          [] chars[k] = "U" -> "u"
          [] chars[k] = "B" -> "b"
          [] OTHER -> chars[k]]

(* The re.search of check_quotes on a string token: letters of rub in      *)
(* either case, one to three quote characters, any text, and the quote     *)
(* characters again.  The groups are those of the match the regex engine   *)
(* finds first: the longest prefix, then the longest quote, that the rest  *)
(* of the pattern allows.                                                  *)
Match(token) ==
    LET fits(p, q) ==
            /\ Len(token) >= p + 2 * q
            /\ \A k \in 1..p : token[k] \in PrefixChars
            /\ \A k \in p + 1..p + q : token[k] \in QuoteChars
            /\ SubSeq(token, Len(token) - q + 1, Len(token)) = SubSeq(token, p + 1, p + q)
        splits == {pq \in (0..Len(token)) \X (1..3) : fits(pq[1], pq[2])}
        first == CHOOSE pq \in splits :
                    \A other \in splits :
                        \/ other[1] < pq[1]
                        \/ other[1] = pq[1] /\ other[2] <= pq[2]
    IN  [prefixes |-> SubSeq(token, 1, first[1]),
         quote |-> SubSeq(token, first[1] + 1, first[1] + first[2]),
         text |-> SubSeq(token, first[1] + first[2] + 1, Len(token) - first[2])]

RECURSIVE Unescape(_)
\* the characters a literal's text stands for: a backslash quotes the
\* character after it
Unescape(text) ==
    IF text = <<>> THEN <<>>
    ELSE IF Head(text) = "\\" /\ Len(text) > 1
    THEN <<text[2]>> \o Unescape(Tail(Tail(text)))
    ELSE <<Head(text)>> \o Unescape(Tail(text))

RECURSIVE Escape(_, _)
\* the text repr() writes for the characters `value` inside quotes `q`
Escape(value, q) ==
    IF value = <<>> THEN <<>>
    ELSE (IF Head(value) \in {"\\", q} THEN <<"\\", Head(value)>> ELSE <<Head(value)>>)
            \o Escape(Tail(value), q)

\* ascii(eval(literal)) for a literal prefix + quote + text + quote: the
\* value keeps the prefix, is written in single quotes unless it holds a
\* single quote and no double one
AsciiEval(prefix, text) ==
    LET value == Unescape(text)
        q == IF "'" \in Range(value) /\ "\"" \notin Range(value) THEN "\"" ELSE "'"
    IN  prefix \o <<q>> \o Escape(value, q) \o <<q>>

\* the re.search on previous_logical: def or class and a space, or nothing
AfterDefinition(previous) ==
    previous = <<>> \/ previous[1] \in {"def", "class"}

\* token_strings[:3] == [from, __future__, import]
future_import(tokens) ==
    /\ Len(tokens) >= 3
    /\ tokens[1].token = <<"from">>
    /\ tokens[2].token = <<"__future__">>
    /\ tokens[3].token = <<"import">>

\* checker_state after the first lines of check_quotes
QuotesState(tokens, state) ==
    IF future_import(tokens) /\ \E k \in DOMAIN tokens : tokens[k].token = <<"unicode_literals">>
    THEN state \cup {"has_unicode_literals"}
    ELSE state

QuoteLocals == [i |-> 1, first_token |-> TRUE, yielded |-> <<>>]

\* a faulty variant: a docstring or multi-line string is checked like any other
QuotesIterNoSkip(s, tokens, previous, state, version) ==
    LET t == tokens[s.i]
        m == Match(t.token)
        prefixes == Range(Lower(m.prefixes))
        a112 == IF "u" \in prefixes THEN <<Error(t.start, "A112", <<>>)>> ELSE <<>>
        prefix == IF version >= 3
                  THEN IF "b" \in prefixes THEN <<"b">> ELSE <<>>
                  ELSE IF \/ "u" \in prefixes
                          \/ "has_unicode_literals" \in state /\ "b" \notin prefixes
                       THEN <<"u">> ELSE <<>>
        literal == prefix \o m.quote \o m.text \o m.quote
        a110 == IF "r" \in prefixes
                THEN IF /\ m.quote # <<"'">>
                        /\ ~(m.quote = <<"\"">> /\ "'" \in Range(m.text))
                     THEN <<Error(t.start, "A110", <<"raw">>)>>
                     ELSE <<>>
                ELSE IF AsciiEval(prefix, m.text) # literal
                     THEN <<Error(t.start, "A110",
                                  <<IF version >= 3 THEN "ascii" ELSE "repr">>)>>
                     ELSE <<>>
    IN  IF t.kind \in {"INDENT", "DEDENT"} THEN [s EXCEPT !.i = @ + 1, !.yielded = <<>>]
        ELSE IF t.kind # "STRING"
        THEN [i |-> s.i + 1, first_token |-> FALSE, yielded |-> <<>>]
        ELSE [i |-> s.i + 1, first_token |-> FALSE, yielded |-> a112 \o a110]

\* one iteration of: for kind, token, start, end, _ in tokens; `yielded`
\* are the findings it yields
QuotesIter(s, tokens, previous, state, version) ==
    LET t == tokens[s.i]
        m == Match(t.token)
        prefixes == Range(Lower(m.prefixes))
        a112 == IF "u" \in prefixes THEN <<Error(t.start, "A112", <<>>)>> ELSE <<>>
        prefix == IF version >= 3
                  THEN IF "b" \in prefixes THEN <<"b">> ELSE <<>>
                  ELSE IF \/ "u" \in prefixes
                          \/ "has_unicode_literals" \in state /\ "b" \notin prefixes
                       THEN <<"u">> ELSE <<>>
        literal == prefix \o m.quote \o m.text \o m.quote
        a110 == IF s.first_token /\ AfterDefinition(previous) THEN <<>>
                ELSE IF t.start[1] # t.end[1] THEN <<>>
                ELSE IF "r" \in prefixes
                THEN IF /\ m.quote # <<"'">>
                        /\ ~(m.quote = <<"\"">> /\ "'" \in Range(m.text))
                     THEN <<Error(t.start, "A110", <<"raw">>)>>
                     ELSE <<>>
                ELSE IF AsciiEval(prefix, m.text) # literal
                     THEN <<Error(t.start, "A110",
                                  <<IF version >= 3 THEN "ascii" ELSE "repr">>)>>
                     ELSE <<>>
    IN  IF t.kind \in {"INDENT", "DEDENT"} THEN [s EXCEPT !.i = @ + 1, !.yielded = <<>>]
        ELSE IF t.kind # "STRING"
        THEN [i |-> s.i + 1, first_token |-> FALSE, yielded |-> <<>>]
        ELSE [i |-> s.i + 1, first_token |-> FALSE, yielded |-> a112 \o a110]

----------------------------------------------------------------------------
(* The variables of the operations a specification leaves out.             *)

IdleBlock == nodes = <<>> /\ flags = Flags(FALSE, TRUE, FALSE, FALSE) /\ locals = BlockLocals

IdleHash == hash_nodes = [nodes |-> <<>>, what |-> ""] /\ hash_locals = HashLocals

IdleCompare == cmp_node = Compare(Num(0), <<>>, <<>>) /\ cmp_locals = CompareLocals

NoNode == [node |-> <<>>, type |-> "None", phase |-> "", kids |-> <<>>, base |-> <<>>]

IdleTree ==
    /\ stack = <<>> /\ scope_stack = <<>> /\ nstmts = 0 /\ mark = 0
    /\ current = NoNode /\ stored = <<>> /\ visited = <<>> /\ completed = Scope("None")

IdleParen == paren_tokens = <<>> /\ paren_locals = ParenLocals

IdleQuotes ==
    /\ quote_tokens = <<>> /\ previous_logical = <<>> /\ checker_state = {}
    /\ version_info = 3 /\ quote_locals = QuoteLocals

----------------------------------------------------------------------------
(* SpecBlock: one call of _visit_block, statement by statement.            *)

InitBlock ==
    /\ pc = "loop"
    /\ errors = <<>>
    /\ nodes \in SeqsUpTo(BlockStmts, MaxBlock)
    /\ flags \in CallSites
    /\ locals = BlockLocals
    /\ IdleHash /\ IdleCompare /\ IdleTree /\ IdleParen /\ IdleQuotes

\* for i, node in enumerate(nodes): ...
BlockLoop ==
    /\ UNCHANGED notBlock
    /\ pc = "loop"
    /\ locals.i <= Len(nodes)
    /\ locals' = VisitBlockIter(locals, nodes, flags)
    /\ errors' = locals'.errs
    /\ UNCHANGED <<pc, nodes, flags>>

\* if pass_node: ...
BlockReturn ==
    /\ UNCHANGED notBlock
    /\ pc = "loop"
    /\ locals.i > Len(nodes)
    /\ errors' = VisitBlockEnd(locals, nodes, flags)
    /\ pc' = "done"
    /\ UNCHANGED <<nodes, flags, locals>>

NextBlock == BlockLoop \/ BlockReturn

SpecBlock == InitBlock /\ [][NextBlock]_vars

----------------------------------------------------------------------------
(* C1: a call of _visit_block reports dead code at most once; when a       *)
(* statement follows the first return/raise/continue/break of the block,   *)
(* the one A202 is attached to the statement right after it and names its  *)
(* kind; when nothing follows an exiting statement there is no A202.       *)

LeaveIndexes == {i \in 1..Len(nodes) : nodes[i].type \in LEAVE_BLOCK}

FirstLeave == CHOOSE i \in LeaveIndexes : \A j \in LeaveIndexes : i <= j

C1_DeadCodeOnce ==
    LET a202 == WithCode(errors, "A202")
    IN  /\ Len(a202) <= 1
        /\ pc = "done" =>
             IF LeaveIndexes # {} /\ FirstLeave < Len(nodes)
             THEN a202 = <<Error(FirstLeave + 1, "A202",
                                 <<get_statement(nodes[FirstLeave].type)>>)>>
             ELSE a202 = <<>>

\* a finished call on a block with two exiting statements and two dead ones
C1_Witness ==
    /\ pc = "done"
    /\ Cardinality(LeaveIndexes) >= 2
    /\ FirstLeave + 2 <= Len(nodes)
    /\ Len(WithCode(errors, "A202")) = 1

----------------------------------------------------------------------------
(* SpecHash: one call of _visit_hash_keys, key by key.                     *)

\* the keys the model folds: numbers, True, a built-in, two names bound
\* nowhere, and an attribute of one of them
KeyExprs ==
    {Num(1), Num(2), Name("True", "Load"), Name("list", "Load"),
     Name("x", "Load"), Name("y", "Load"), Attribute(Name("x", "Load"), "z")}

InitHash ==
    /\ pc = "loop"
    /\ errors = <<>>
    /\ hash_nodes \in [nodes : SeqsUpTo(KeyExprs, MaxKeys),
                       what : {"key in dict", "item in set"}]
    /\ hash_locals = HashLocals
    /\ IdleBlock /\ IdleCompare /\ IdleTree /\ IdleParen /\ IdleQuotes

\* for node in nodes: ...
HashLoop ==
    /\ UNCHANGED notHash
    /\ pc = "loop"
    /\ hash_locals.i <= Len(hash_nodes.nodes)
    /\ hash_locals' = HashKeysIter(hash_locals, hash_nodes.nodes, <<>>, hash_nodes.what)
    /\ errors' = hash_locals'.errs
    /\ UNCHANGED <<pc, hash_nodes>>

\* the loop is over: visit_Dict and visit_Set return
HashReturn ==
    /\ UNCHANGED notHash
    /\ pc = "loop"
    /\ hash_locals.i > Len(hash_nodes.nodes)
    /\ pc' = "done"
    /\ UNCHANGED <<errors, hash_nodes, hash_locals>>

NextHash == HashLoop \/ HashReturn

SpecHash == InitHash /\ [][NextHash]_vars

----------------------------------------------------------------------------
(* C3: the keys of a literal are folded left to right against one          *)
(* namespace; A207 is reported once for each key whose folded value equals *)
(* that of an earlier key, on the repeated key; a first occurrence and a   *)
(* key that does not fold are never reported, and a key that does not fold *)
(* makes no other key reported.  So the A207 findings number the foldable  *)
(* keys less the distinct folded values.                                   *)

RECURSIVE NamespaceBefore(_)
\* the namespace the key at position i is folded against
NamespaceBefore(i) ==
    IF i = 1 THEN BuiltinsNamespace
    ELSE evaluate(hash_nodes.nodes[i - 1], NamespaceBefore(i - 1)).namespace

FoldedKey(i) == evaluate(hash_nodes.nodes[i], NamespaceBefore(i)).value

Foldable == {i \in 1..Len(hash_nodes.nodes) : FoldedKey(i) # VOLATILE}

Repeats == {i \in Foldable : \E j \in Foldable : j < i /\ PyEq(FoldedKey(j), FoldedKey(i))}

C3_DuplicateKeys ==
    pc = "done" =>
        LET a207 == WithCode(errors, "A207")
        IN  /\ \A i \in Repeats :
                 Len(SelectSeq(a207, LAMBDA e : e.node = <<i>>)) = 1
            /\ \A k \in 1..Len(a207) :
                 /\ a207[k].node[1] \in Repeats
                 /\ a207[k].arg = <<hash_nodes.what>>
            /\ \A k \in 1..Len(a207) - 1 : a207[k].node[1] < a207[k + 1].node[1]
            /\ Len(a207) = Cardinality(Foldable)
                             - Cardinality({FoldedKey(i) : i \in Foldable})
            /\ Len(a207) = Len(errors)

\* a finished call on a literal with a repeated name, a key that does not
\* fold and one finding
C3_Witness ==
    /\ pc = "done"
    /\ Len(hash_nodes.nodes) = 3
    /\ Cardinality(Foldable) = 2
    /\ \E i \in Repeats : hash_nodes.nodes[i].type = "Name"
    /\ Len(WithCode(errors, "A207")) = 1

----------------------------------------------------------------------------
(* SpecCompare: one call of visit_Compare, operator by operator.           *)

CmpOps == {"Eq", "NotEq", "Is", "IsNot", "Lt", "In", "NotIn"}

\* operands: a number, None, a list display of numbers, and a name the
\* folding namespace lacks
Operands == {Num(5), Name("None", "Load"), List(<<Num(1)>>), Name("x", "Load")}

InitCompare ==
    /\ pc = "loop"
    /\ errors = <<>>
    /\ \E k \in 1..MaxOps :
         \E left \in Operands, ops \in [1..k -> CmpOps], comparators \in [1..k -> Operands] :
            cmp_node = Compare(left, ops, comparators)
    /\ cmp_locals = CompareLocals
    /\ IdleBlock /\ IdleHash /\ IdleTree /\ IdleParen /\ IdleQuotes

\* for op, right in zip(node.ops, node.comparators): ...
CompareLoop_ ==
    /\ UNCHANGED notCompare
    /\ pc = "loop"
    /\ cmp_locals.i <= Len(cmp_node.ops)
    /\ cmp_locals' = CompareIter(cmp_locals, cmp_node, <<>>)
    /\ errors' = cmp_locals'.errs
    /\ UNCHANGED <<pc, cmp_node>>

\* self.generic_visit(node): the operands of the model have no visitor
\* method of their own that reports
CompareReturn ==
    /\ UNCHANGED notCompare
    /\ pc = "loop"
    /\ cmp_locals.i > Len(cmp_node.ops)
    /\ pc' = "done"
    /\ UNCHANGED <<errors, cmp_node, cmp_locals>>

NextCompare == CompareLoop_ \/ CompareReturn

SpecCompare == InitCompare /\ [][NextCompare]_vars

----------------------------------------------------------------------------
(* C8: for each step (left, operator, right) of a comparison chain, A103   *)
(* is reported at the left operand exactly when the operator is ==, !=,    *)
(* is or is not, or the chain has one operator and it is not in / not in,  *)
(* and the left operand folds to a constant while the right one does not.  *)

\* a constant of the model's operands: a literal, or a name that the
\* namespace of is_const holds
Constant(node) ==
    \/ node.type = "Num"
    \/ node.type = "Name" /\ node.id \in {"True", "False", "None"}
    \/ node.type = "List" /\ \A k \in DOMAIN node.kids : node.kids[k].type = "Num"

\* the steps of the chain that are yoda conditions: the operand at child
\* position k is the left one of operator k
Yoda ==
    {k \in 1..Len(cmp_node.ops) :
        /\ \/ cmp_node.ops[k] \in {"Eq", "NotEq", "Is", "IsNot"}
           \/ Len(cmp_node.ops) = 1 /\ cmp_node.ops[k] \notin {"In", "NotIn"}
        /\ Constant(cmp_node.kids[k])
        /\ ~Constant(cmp_node.kids[k + 1])}

C8_YodaCondition ==
    pc = "done" =>
        LET a103 == WithCode(errors, "A103")
        IN  /\ \A k \in Yoda : Len(SelectSeq(a103, LAMBDA e : e.node = <<k>>)) = 1
            /\ \A j \in 1..Len(a103) : a103[j].node[1] \in Yoda

\* a finished two-operator chain with an ordering step between constants
\* that is not reported and an equality step that is
C8_Witness ==
    /\ pc = "done"
    /\ cmp_node.ops = <<"Lt", "Eq">>
    /\ Constant(cmp_node.kids[1]) /\ Constant(cmp_node.kids[2])
    /\ Yoda = {2}
    /\ WithCode(errors, "A103") = <<Error(<<2>>, "A103", <<>>)>>

----------------------------------------------------------------------------
(* Spec: check_ast, the tree pass over a module.                           *)
(*                                                                         *)
(* The tree is read as the pass goes.  A body is drawn, when its node is   *)
(* entered, as _visit_block reads it: per statement its type when that is  *)
(* Pass, Return or Expr (with the type of the value) and "Other" for any   *)
(* other statement; which statement an "Other" is, and every statement's   *)
(* fields, are drawn when the pass reaches it.  A frame of `stack` is      *)
(* [node, type, todo, next]: the children not yet visited and the          *)
(* position of the first of them.  The children of a compound statement    *)
(* that are no statements (args, test) are the children of its child 0.    *)

TreeStmts ==
    {Stmt("Pass", "None"), Stmt("Return", "None"), Stmt("Other", "None"),
     Stmt("Expr", "Call"), Stmt("Expr", "Dict")}

Names == {"a", "list"}

RedundantCall == Call(Name("list", "Load"), <<List(<<Num(1)>>)>>)

LambdaList == Lambda(<<Arg("list")>>, Num(1))

\* the values of expression statements: f(), list([1]), {1: list([1])},
\* {1: 2, 1: 2}
ExprValues ==
    {Call(Name("f", "Load"), <<>>), RedundantCall,
     Dict(<<Num(1)>>, <<RedundantCall>>),
     Dict(<<Num(1), Num(1)>>, <<Num(2), Num(2)>>)}

\* the values assigned: 1, lambda list: 1
AssignValues == {Num(1), LambdaList}

\* the names of a global or nonlocal statement
DeclaredNames == {<<"a">>, <<"list">>, <<"a", "a">>, <<"a", "list">>}

\* import a, import a as list
Aliases == {[name |-> "a", asname |-> ""], [name |-> "a", asname |-> "list"]}

\* the args of a function
ArgLists == {<<>>, <<Arg("a")>>, <<Arg("list")>>}

Bodies(lo, hi) == {b \in SeqsUpTo(TreeStmts, hi) : Len(b) >= lo}

Frame(node, type, todo) == [node |-> node, type |-> type, todo |-> todo, next |-> 1]

Top == stack[Len(stack)]

\* the statement the pass is about to visit and its path
NextStmt == Top.todo[1]
Child == Append(Top.node, Top.next)

\* the stack once the next statement is taken from its parent's frame
Advance == [stack EXCEPT ![Len(stack)] =
                [@ EXCEPT !.todo = Tail(@), !.next = @ + 1]]

Handled(node, type, phase, kids, base) ==
    [node |-> node, type |-> type, phase |-> phase, kids |-> kids, base |-> base]

Init ==
    /\ pc = "start"
    /\ errors = <<>>
    /\ IdleBlock /\ IdleHash /\ IdleCompare /\ IdleTree /\ IdleParen /\ IdleQuotes

\* self.scope_stack[-1] of an empty stack
IndexError ==
    /\ pc' = "IndexError"
    /\ UNCHANGED <<errors, treeVars>>

\* visit_Module, up to the visit of the first statement
visit_Module ==
    /\ UNCHANGED notTree
    /\ pc = "start"
    /\ \E body \in Bodies(0, MaxStmts) :
         /\ errors' = errors \o BlockErrors(body, Flags(TRUE, FALSE, TRUE, FALSE), <<>>, 0)
         /\ stack' = <<Frame(<<>>, "Module", body)>>
         /\ nstmts' = Len(body)
    /\ scope_stack' = Append(scope_stack, Scope("Module"))
    /\ mark' = Len(errors)
    /\ current' = Handled(<<>>, "Module", "enter", <<>>, <<>>)
    /\ stored' = <<>>
    /\ visited' = << <<>> >>
    /\ pc' = "visit"
    /\ completed' = Scope("None")

\* a statement without a visitor method and without children: pass, return
generic_visit_Stmt ==
    /\ UNCHANGED notTree
    /\ pc = "visit" /\ Top.todo # <<>>
    /\ NextStmt.type \in {"Pass", "Return"}
    /\ stack' = Advance
    /\ mark' = Len(errors)
    /\ current' = Handled(Child, NextStmt.type, "visit", <<>>, Child)
    /\ stored' = <<>>
    /\ visited' = <<Child>>
    /\ completed' = Scope("None")
    /\ UNCHANGED <<pc, errors, scope_stack, nstmts>>

\* an expression statement: generic_visit, which visits its value
visit_Expr ==
    /\ UNCHANGED notTree
    /\ pc = "visit" /\ Top.todo # <<>>
    /\ NextStmt.type = "Expr"
    /\ IF scope_stack = <<>> THEN IndexError
       ELSE \E value \in ExprValues :
            /\ value.type = NextStmt.value
            /\ LET r == visit(value, Append(Child, 1), scope_stack[Len(scope_stack)])
               IN  /\ errors' = errors \o r.errs
                   /\ scope_stack' = AddNames(scope_stack, r.stored)
                   /\ stored' = r.stored
                   /\ visited' = <<Child>> \o r.visited
            /\ stack' = Advance
            /\ mark' = Len(errors)
            /\ current' = Handled(Child, "Expr", "visit", <<value>>, Child)
            /\ completed' = Scope("None")
                /\ UNCHANGED <<pc, nstmts>>

\* visit_Assign of  name = value
visit_Assign ==
    /\ UNCHANGED notTree
    /\ pc = "visit" /\ Top.todo # <<>>
    /\ NextStmt.type = "Other"
    /\ IF scope_stack = <<>> THEN IndexError
       ELSE \E name \in Names, value \in AssignValues :
            LET target == Name(name, "Store")
                left_is_target == /\ value.type = "BinOp"
                                  /\ value.kids[1].type = "Name"
                                  /\ target.id = value.kids[1].id
                r == VisitAll(<<target, value>>, 1, Child, scope_stack[Len(scope_stack)])
            IN  /\ errors' = errors
                               \o (IF left_is_target THEN <<Error(Child, "A106", <<>>)>> ELSE <<>>)
                               \o r.errs
                /\ scope_stack' = AddNames(scope_stack, r.stored)
                /\ stored' = r.stored
                /\ visited' = <<Child>> \o r.visited
                /\ stack' = Advance
                /\ mark' = Len(errors)
                /\ current' = Handled(Child, "Assign", "visit", <<target, value>>, Child)
                /\ completed' = Scope("None")
                /\ UNCHANGED <<pc, nstmts>>

\* visit_Global, which is visit_Nonlocal too
visit_Global ==
    /\ UNCHANGED notTree
    /\ pc = "visit" /\ Top.todo # <<>>
    /\ NextStmt.type = "Other"
    /\ IF scope_stack = <<>> THEN IndexError
       ELSE \E type \in {"Global", "Nonlocal"}, names \in DeclaredNames :
            LET scope == scope_stack[Len(scope_stack)]
                node == [node |-> Child, type |-> type, names |-> names]
            IN  /\ scope_stack' = [scope_stack EXCEPT
                                     ![Len(scope_stack)].globals = Append(@, node)]
                /\ errors' = IF scope.node = "Module"
                             THEN Append(errors, Error(Child, "A201",
                                                       <<get_statement(type), "top-level">>))
                             ELSE errors
                /\ stack' = Advance
                /\ mark' = Len(errors)
                /\ current' = Handled(Child, type, "visit", <<>>, Child)
                /\ stored' = <<>>
                /\ visited' = <<Child>>
                /\ completed' = Scope("None")
                /\ UNCHANGED <<pc, nstmts>>

\* visit_Import of  import name [as asname]
visit_Import ==
    /\ UNCHANGED notTree
    /\ pc = "visit" /\ Top.todo # <<>>
    /\ NextStmt.type = "Other"
    /\ IF scope_stack = <<>> THEN IndexError
       ELSE \E alias \in Aliases :
            LET r == _visit_stored_name(Child,
                         IF alias.asname # "" THEN alias.asname ELSE alias.name,
                         scope_stack[Len(scope_stack)])
            IN  /\ errors' = errors \o r.errs
                /\ scope_stack' = AddNames(scope_stack, r.stored)
                /\ stored' = r.stored
                /\ stack' = Advance
                /\ mark' = Len(errors)
                /\ current' = Handled(Child, "Import", "visit", <<>>, Child)
                /\ visited' = <<Child>>
                /\ completed' = Scope("None")
                /\ UNCHANGED <<pc, nstmts>>

\* visit_FunctionDef, which is visit_ClassDef too, up to the visit of the
\* first statement of the body: the name is stored, the body analyzed, the
\* scope pushed and, of generic_visit, the args visited
visit_FunctionDef ==
    /\ UNCHANGED notTree
    /\ pc = "visit" /\ Top.todo # <<>>
    /\ NextStmt.type = "Other"
    /\ IF scope_stack = <<>> THEN IndexError
       ELSE \E type \in {"FunctionDef", "ClassDef"}, name \in Names,
               args \in ArgLists, body \in Bodies(1, MaxStmts - nstmts) :
            /\ type = "ClassDef" => args = <<>>
            /\ LET named == _visit_stored_name(Child, name, scope_stack[Len(scope_stack)])
                   block == BlockErrors(body, Flags(TRUE, TRUE, TRUE, FALSE), Child, 0)
                   pushed == Append(AddNames(scope_stack, named.stored), Scope(type))
                   r == VisitAll(args, 1, Append(Child, 0), pushed[Len(pushed)])
               IN  /\ errors' = errors \o named.errs \o block \o r.errs
                   /\ scope_stack' = AddNames(pushed, r.stored)
                   /\ stored' = named.stored \o r.stored
                   /\ visited' = <<Child>> \o r.visited
            /\ stack' = Append(Advance, Frame(Child, type, body))
            /\ nstmts' = nstmts + Len(body)
            /\ mark' = Len(errors)
            /\ current' = Handled(Child, type, "enter", args, Append(Child, 0))
            /\ completed' = Scope("None")
            /\ UNCHANGED pc

\* the rest of visit_FunctionDef, once generic_visit has visited the body:
\* the scope is popped and its declarations are examined
return_FunctionDef ==
    /\ UNCHANGED notTree
    /\ pc = "visit" /\ Top.todo = <<>>
    /\ Top.type \in {"FunctionDef", "ClassDef"}
    /\ LET scope == scope_stack[Len(scope_stack)]
       IN  /\ scope_stack' = PopScope(scope_stack)
           /\ completed' = scope
           /\ errors' = errors \o DeclarationsLoop(Flatten(scope.globals), scope, {}, <<>>)
    /\ stack' = SubSeq(stack, 1, Len(stack) - 1)
    /\ mark' = Len(errors)
    /\ current' = Handled(Top.node, Top.type, "return", <<>>, Top.node)
    /\ stored' = <<>>
    /\ visited' = <<>>
    /\ UNCHANGED <<pc, nstmts>>

\* visit_If, up to the visit of the first statement of the body: both
\* blocks are analyzed and, of generic_visit, the test is visited
visit_If ==
    /\ UNCHANGED notTree
    /\ pc = "visit" /\ Top.todo # <<>>
    /\ NextStmt.type = "Other"
    /\ \E body \in Bodies(1, MaxStmts - nstmts) :
         \E orelse \in Bodies(0, MaxStmts - nstmts - Len(body)) :
            LET test == Name("x", "Load")
                r == visit(test, Child \o <<0, 1>>, Scope("None"))
            IN  /\ errors' = errors
                     \o BlockErrors(body, Flags(orelse # <<>>, TRUE, FALSE, FALSE), Child, 0)
                     \o BlockErrors(orelse, Flags(FALSE, TRUE, FALSE, FALSE), Child, Len(body))
                     \o _check_redundant_else(orelse, Append(Child, Len(body) + 1),
                                              <<body>>, "if")
                     \o r.errs
                /\ stack' = Append(Advance, Frame(Child, "If", body \o orelse))
                /\ nstmts' = nstmts + Len(body) + Len(orelse)
                /\ visited' = <<Child>> \o r.visited
                /\ current' = Handled(Child, "If", "enter", <<test>>, Append(Child, 0))
    /\ mark' = Len(errors)
    /\ stored' = <<>>
    /\ completed' = Scope("None")
    /\ UNCHANGED <<pc, scope_stack>>

\* the end of visit_If: generic_visit has visited body and orelse
return_If ==
    /\ UNCHANGED notTree
    /\ pc = "visit" /\ Top.todo = <<>>
    /\ Top.type = "If"
    /\ stack' = SubSeq(stack, 1, Len(stack) - 1)
    /\ mark' = Len(errors)
    /\ current' = Handled(Top.node, "If", "return", <<>>, Top.node)
    /\ stored' = <<>>
    /\ visited' = <<>>
    /\ completed' = Scope("None")
    /\ UNCHANGED <<pc, errors, scope_stack, nstmts>>

\* the end of visit_Module: _visit_with_scope pops the module's scope
return_Module ==
    /\ UNCHANGED notTree
    /\ pc = "visit" /\ Top.todo = <<>>
    /\ Top.type = "Module"
    /\ completed' = scope_stack[Len(scope_stack)]
    /\ scope_stack' = PopScope(scope_stack)
    /\ stack' = <<>>
    /\ mark' = Len(errors)
    /\ current' = Handled(<<>>, "Module", "return", <<>>, <<>>)
    /\ stored' = <<>>
    /\ visited' = <<>>
    /\ pc' = "done"
    /\ UNCHANGED <<errors, nstmts>>

Next ==
    \/ visit_Module
    \/ generic_visit_Stmt
    \/ visit_Expr
    \/ visit_Assign
    \/ visit_Global
    \/ visit_Import
    \/ visit_FunctionDef
    \/ return_FunctionDef
    \/ visit_If
    \/ return_If
    \/ return_Module

Spec == Init /\ [][Next]_vars

\* the findings the last step appended
Emitted == SubSeq(errors, mark + 1, Len(errors))

\* the last step entered a node of this type whose body is `body`
JustEntered(type, body) ==
    /\ pc = "visit"
    /\ current.phase = "enter" /\ current.type = type
    /\ Top.node = current.node /\ Top.next = 1 /\ Top.todo = body

\* the type of the innermost module, function or class among the frames
Innermost(frames) ==
    LET scopes == SelectSeq(frames, LAMBDA f : f.type \in ScopeTypes)
    IN  scopes[Len(scopes)].type

----------------------------------------------------------------------------
(* C2, as stated: a function whose body is exactly [pass] gets both an     *)
(* A204 and an A205 finding for that pass.                                 *)

OnlyPass == <<Stmt("Pass", "None")>>

C2_PassInFunctionReported ==
    JustEntered("FunctionDef", OnlyPass) =>
        /\ Error(Append(current.node, 1), "A204", <<>>) \in Range(errors)
        /\ Error(Append(current.node, 1), "A205", <<>>) \in Range(errors)

(* C2, amended: a function whose body is exactly [pass] gets neither an    *)
(* A204 nor an A205 finding for that pass.                                 *)
C2_PassInFunctionAccepted ==
    JustEntered("FunctionDef", OnlyPass) =>
        \A k \in DOMAIN errors :
            errors[k].code \in {"A204", "A205"} =>
                errors[k].node # Append(current.node, 1)

\* visit_FunctionDef has analyzed a body that is exactly [pass]
C2_Witness ==
    /\ JustEntered("FunctionDef", OnlyPass)
    /\ Emitted = <<>>

----------------------------------------------------------------------------
(* C4: the depth of the scope stack is the number of module, function and  *)
(* class nodes being traversed, scope by scope of their types; the stack   *)
(* is not empty during the traversal, the module's scope at its bottom,    *)
(* so no binding or declaration is recorded against an empty stack; and it *)
(* is empty once the traversal is over.                                    *)

C4_ScopeDepth ==
    LET scopes == SelectSeq(stack, LAMBDA f : f.type \in ScopeTypes)
    IN  /\ pc # "IndexError"
        /\ Len(scope_stack) = Len(scopes)
        /\ \A k \in DOMAIN scope_stack : scope_stack[k].node = scopes[k].type
        /\ pc = "visit" => scope_stack # <<>> /\ scope_stack[1].node = "Module"
        /\ pc = "done" => scope_stack = <<>>

\* a name is bound in an if statement of a function: three nodes deep, two
\* scopes
C4_Witness ==
    /\ pc = "visit"
    /\ Len(stack) = 3 /\ stack[2].type = "FunctionDef" /\ stack[3].type = "If"
    /\ Len(scope_stack) = 2
    /\ current.type = "Assign" /\ stored # <<>>

----------------------------------------------------------------------------
(* C5: a binding of an essential built-in name is reported (A302) exactly  *)
(* when the scope on top of the stack at the binding is a function's.  A   *)
(* function's or class's own name is bound in the enclosing scope, its     *)
(* args in its own; every other binding in the innermost scope around it.  *)

BindingScope(s) ==
    IF /\ current.phase = "enter"
       /\ current.type \in {"FunctionDef", "ClassDef"}
       /\ s.node = current.node
    THEN Innermost(SubSeq(stack, 1, Len(stack) - 1))
    ELSE Innermost(stack)

C5_BuiltinInFunction ==
    /\ \A k \in DOMAIN stored :
         (\E e \in Range(Emitted) :
             e.code = "A302" /\ e.node = stored[k].node /\ e.arg = <<stored[k].name>>)
           <=> (/\ stored[k].name \in ESSENTIAL_BUILTINS
                /\ BindingScope(stored[k]) = "FunctionDef")
    /\ \A e \in Range(Emitted) :
         e.code = "A302" =>
            \E k \in DOMAIN stored : e.node = stored[k].node /\ e.arg = <<stored[k].name>>

\* def list(list) in a function: the name and the arg are both reported
C5_Witness ==
    /\ JustEntered("FunctionDef", Top.todo)
    /\ Len(stack) = 3 /\ stack[2].type = "FunctionDef"
    /\ Len(stored) = 2
    /\ Len(WithCode(Emitted, "A302")) = 2

----------------------------------------------------------------------------
(* C6: when a function or class scope completes, its declarations are      *)
(* examined in the order recorded, name by name, and a name is reported    *)
(* (A201, naming the statement's kind and the name) exactly when the       *)
(* scope's own names lack it or it was declared before in the scope (in an *)
(* earlier statement or earlier in the same one) and accepted then.        *)

Declared == Flatten(completed.globals)

RepeatedOrUnbound(j) ==
    \/ Declared[j].name \notin completed.names
    \/ \E i \in 1..j - 1 :
         /\ Declared[i].name = Declared[j].name
         /\ Declared[i].name \in completed.names

ExpectedA201 ==
    LET numbered == [j \in DOMAIN Declared |-> [j |-> j, d |-> Declared[j]]]
        reported == SelectSeq(numbered, LAMBDA x : RepeatedOrUnbound(x.j))
    IN  [k \in DOMAIN reported |->
            Error(reported[k].d.declaration.node, "A201",
                  <<get_statement(reported[k].d.declaration.type), reported[k].d.name>>)]

C6_RedundantDeclaration ==
    (current.phase = "return" /\ current.type \in {"FunctionDef", "ClassDef"}) =>
        Emitted = ExpectedA201

\* a function that declares a twice and binds it: the repeat is reported
C6_Witness ==
    /\ current.phase = "return" /\ current.type = "FunctionDef"
    /\ Len(completed.globals) = 1
    /\ completed.globals[1].names = <<"a", "a">>
    /\ "a" \in completed.names
    /\ Len(Emitted) = 1

----------------------------------------------------------------------------
(* C9, as stated: the pass visits every node of the tree once, so a        *)
(* construct that triggers a rule is reported wherever it is nested.  For  *)
(* the statement the last step handled: each node below it was visited     *)
(* once, and each call in it has the findings of visit_Call.               *)

RECURSIVE NodesOf(_, _)
\* the nodes of a subtree, [path, node] each
NodesOf(node, path) ==
    {[path |-> path, node |-> node]}
        \cup UNION {NodesOf(node.kids[k], Append(path, k)) : k \in DOMAIN node.kids}

C9_EveryNodeVisited ==
    current.phase \in {"visit", "enter"} =>
        /\ Len(SelectSeq(visited, LAMBDA p : p = current.node)) = 1
        /\ \A k \in DOMAIN current.kids :
             \A x \in NodesOf(current.kids[k], Append(current.base, k)) :
                /\ Len(SelectSeq(visited, LAMBDA p : p = x.path)) = 1
                /\ x.node.type = "Call" =>
                      \A e \in Range(visit_Call(x.node, x.path)) : e \in Range(Emitted)

----------------------------------------------------------------------------
(* SpecParen: one call of check_redundant_parenthesis, token by token.     *)

\* the words and operators of the lines the model reads
ParenWords ==
    {<<"NAME", "if">>, <<"NAME", "x">>,
     <<"OP", "(">>, <<"OP", ")">>, <<"OP", ",">>, <<"OP", ":">>}

RECURSIVE Level(_, _)
\* the parentheses open after the first k of `words`, -1 once one was closed
\* that was not open
Level(words, k) ==
    IF k = 0 THEN 0
    ELSE LET before == Level(words, k - 1)
         IN  IF before < 0 THEN -1
             ELSE IF words[k] = <<"OP", "(">> THEN before + 1
             ELSE IF words[k] = <<"OP", ")">> THEN before - 1
             ELSE before

\* the tokens of a line: an indent or none, the words, and the NEWLINE; the
\* tokens from position brk on, if there are any, are on the second
\* physical line
Lay(indent, words, brk) ==
    LET all == indent \o words \o <<<<"NEWLINE", "">>>>
        row(k) == IF k < brk THEN 1 ELSE 2
    IN  [k \in DOMAIN all |-> Token(all[k][1], all[k][2], <<row(k), k>>, <<row(k), k>>)]

InitParen ==
    /\ pc = "loop"
    /\ errors = <<>>
    /\ \E indent \in {<<>>, <<<<"INDENT", "">>>>} :
       \E words \in {w \in SeqsUpTo(ParenWords, MaxTokens) : Level(w, Len(w)) = 0} :
       \E brk \in (2..Len(indent) + Len(words)) \cup {Len(indent) + Len(words) + 2} :
          paren_tokens = Lay(indent, words, brk)
    /\ paren_locals = ParenLocals
    /\ IdleBlock /\ IdleHash /\ IdleCompare /\ IdleTree /\ IdleQuotes

\* for i, (kind, token, _, end, _) in enumerate(tokens): ...
ParenLoop ==
    /\ UNCHANGED notParen
    /\ pc = "loop"
    /\ paren_locals.out = "loop"
    /\ paren_locals.i <= Len(paren_tokens)
    /\ paren_locals' = ParenIter(paren_locals, paren_tokens)
    /\ errors' = paren_locals'.result
    /\ pc' = IF paren_locals'.out = "return" THEN "done" ELSE "loop"
    /\ UNCHANGED paren_tokens

\* return []
ParenReturn ==
    /\ UNCHANGED notParen
    /\ pc = "loop"
    /\ paren_locals.out = "break" \/ paren_locals.i > Len(paren_tokens)
    /\ errors' = <<>>
    /\ pc' = "done"
    /\ UNCHANGED <<paren_tokens, paren_locals>>

NextParen == ParenLoop \/ ParenReturn

SpecParen == InitParen /\ [][NextParen]_vars

----------------------------------------------------------------------------
(* C7: check_redundant_parenthesis returns at most one finding, and an     *)
(* A111 exactly when the line starts with if/elif/while, a "(" follows at  *)
(* once, the ")" that matches it is followed at once by ":", something is  *)
(* between the two, every token up to that ")" ends on the line the        *)
(* logical line starts on, and no comma is at nesting level 1.             *)

\* the first token that is no indent
First == CHOOSE k \in DOMAIN paren_tokens :
            /\ paren_tokens[k].kind \notin {"INDENT", "DEDENT"}
            /\ \A j \in 1..k - 1 : paren_tokens[j].kind \in {"INDENT", "DEDENT"}

\* the parentheses open at token k, that token counted
Depth(k) ==
    Cardinality({j \in First..k : Is(paren_tokens, j, "OP", "(")})
        - Cardinality({j \in First..k : Is(paren_tokens, j, "OP", ")")})

\* the ")" that matches the "(" after the first token
Closing ==
    CHOOSE k \in DOMAIN paren_tokens :
        /\ k > First + 1 /\ Depth(k) = 0
        /\ \A j \in First + 1..k - 1 : Depth(j) > 0

Parenthesised ==
    /\ paren_tokens[First].kind = "NAME"
    /\ paren_tokens[First].token \in {"if", "elif", "while"}
    /\ Is(paren_tokens, First + 1, "OP", "(")

RedundantParenthesis ==
    /\ Parenthesised
    /\ Closing > First + 2
    /\ Is(paren_tokens, Closing + 1, "OP", ":")
    /\ \A k \in First + 1..Closing :
         /\ paren_tokens[k].end[1] = paren_tokens[1].start[1]
         /\ Is(paren_tokens, k, "OP", ",") => Depth(k) # 1

C7_RedundantParenthesis ==
    pc = "done" =>
        IF RedundantParenthesis
        THEN errors = <<Error(paren_tokens[First + 1].start, "A111",
                              <<paren_tokens[First].token>>)>>
        ELSE errors = <<>>

\* an indented "if (x):" on one line, reported
C7_Witness ==
    /\ pc = "done"
    /\ paren_tokens[1].kind = "INDENT"
    /\ RedundantParenthesis
    /\ Len(errors) = 1 /\ errors[1].node = <<1, 3>> /\ errors[1].arg = <<"if">>

----------------------------------------------------------------------------
(* SpecQuotes: one call of check_quotes, token by token.                   *)

\* the prefixes of the literals the model reads
Prefixes == {<<>>, <<"u">>, <<"U">>, <<"r">>, <<"b">>}

Triple == <<"\"", "\"", "\"">>

\* their quotes and texts: an a in single, in double and in triple quotes,
\* a single quote in double quotes, an escaped one in single quotes, and a
\* triple-quoted text of two physical lines
LiteralBodies ==
    {<<<<"'">>, <<"a">>>>, <<<<"\"">>, <<"a">>>>, <<<<"\"">>, <<"'">>>>,
     <<<<"'">>, <<"\\", "'">>>>, <<Triple, <<"a">>>>, <<Triple, <<"a", "\n", "b">>>>}

Strings == {<<"STRING", p \o b[1] \o b[2] \o b[1]>> : p \in Prefixes, b \in LiteralBodies}

Word(kind, word) == <<kind, <<word>>>>

\* what comes before the literals of a line
Leads ==
    LET assign == <<Word("NAME", "x"), Word("OP", "=")>>
        future(name) == <<Word("NAME", "from"), Word("NAME", "__future__"),
                          Word("NAME", "import"), Word("NAME", name), Word("OP", ";")>>
    IN  {<<>>, <<Word("INDENT", "")>>, assign, <<Word("INDENT", "")>> \o assign,
         future("unicode_literals"), future("division")}

\* the physical lines a token spans less one
Spans(word) == IF word[1] = "STRING" /\ "\n" \in Range(word[2]) THEN 1 ELSE 0

RECURSIVE Row(_, _)
\* the row token k of `words` starts on
Row(words, k) == IF k = 1 THEN 1 ELSE Row(words, k - 1) + Spans(words[k - 1])

LayQuotes(words) ==
    [k \in DOMAIN words |->
        Token(words[k][1], words[k][2], <<Row(words, k), k>>,
              <<Row(words, k) + Spans(words[k]), k>>)]

InitQuotes ==
    /\ pc = "start"
    /\ errors = <<>>
    /\ \E lead \in Leads, strings \in SeqsUpTo(Strings, MaxStrings) :
          quote_tokens = LayQuotes(lead \o strings \o <<Word("NEWLINE", "")>>)
    /\ previous_logical \in {<<>>, <<"def", "f():">>, <<"x", "=", "1">>}
    /\ checker_state \in {{}, {"has_unicode_literals"}}
    /\ version_info \in {2, 3}
    /\ quote_locals = QuoteLocals
    /\ IdleBlock /\ IdleHash /\ IdleCompare /\ IdleTree /\ IdleParen

\* the statements before the loop
QuotesStart ==
    /\ UNCHANGED notQuotes
    /\ pc = "start"
    /\ checker_state' = QuotesState(quote_tokens, checker_state)
    /\ pc' = "loop"
    /\ UNCHANGED <<errors, quote_tokens, previous_logical, version_info, quote_locals>>

\* for kind, token, start, end, _ in tokens: ...
QuotesLoop ==
    /\ UNCHANGED notQuotes
    /\ pc = "loop"
    /\ quote_locals.i <= Len(quote_tokens)
    /\ quote_locals' = QuotesIter(quote_locals, quote_tokens, previous_logical,
                                  checker_state, version_info)
    /\ errors' = errors \o quote_locals'.yielded
    /\ UNCHANGED <<pc, quote_tokens, previous_logical, checker_state, version_info>>

\* the generator is exhausted
QuotesReturn ==
    /\ UNCHANGED notQuotes
    /\ pc = "loop"
    /\ quote_locals.i > Len(quote_tokens)
    /\ pc' = "done"
    /\ UNCHANGED <<errors, quoteVars>>

NextQuotes == QuotesStart \/ QuotesLoop \/ QuotesReturn

SpecQuotes == InitQuotes /\ [][NextQuotes]_vars

----------------------------------------------------------------------------
(* C10, as stated: check_quotes yields findings only for string tokens     *)
(* that are neither a docstring nor a multi-line literal; for a docstring  *)
(* or a multi-line string, whatever its prefix and quotes, it yields none. *)

\* the token the last iteration handled
Last == quote_locals.i - 1

\* token k is the first token of the line that is no indent, and the
\* previous logical line is empty or starts a def or class
Docstring(k) ==
    /\ \A j \in 1..k - 1 : quote_tokens[j].kind \in {"INDENT", "DEDENT"}
    /\ previous_logical = <<>> \/ previous_logical[1] \in {"def", "class"}

MultiLine(k) == quote_tokens[k].start[1] # quote_tokens[k].end[1]

\* the literal has a u among the letters before its quote
UPrefixed(k) ==
    \E n \in DOMAIN quote_tokens[k].token :
        /\ quote_tokens[k].token[n] \in {"u", "U"}
        /\ \A j \in 1..n : quote_tokens[k].token[j] \notin QuoteChars

C10_NoFindingForDocstring ==
    (pc = "loop" /\ Last >= 1) =>
        ((\/ quote_tokens[Last].kind # "STRING"
          \/ Docstring(Last)
          \/ MultiLine(Last)) => quote_locals.yielded = <<>>)

(* C10, amended: check_quotes yields findings only for string tokens, and  *)
(* A110 only for one that is neither a docstring nor a multi-line literal; *)
(* it yields one A112 for every string token with a u prefix, a docstring  *)
(* or multi-line one too, and for no other.                                *)
C10_OnlyA112ForDocstring ==
    (pc = "loop" /\ Last >= 1) =>
        IF quote_tokens[Last].kind # "STRING" THEN quote_locals.yielded = <<>>
        ELSE /\ WithCode(quote_locals.yielded, "A112")
                   = IF UPrefixed(Last)
                     THEN <<Error(quote_tokens[Last].start, "A112", <<>>)>>
                     ELSE <<>>
             /\ Len(WithCode(quote_locals.yielded, "A110")) <= 1
             /\ (Docstring(Last) \/ MultiLine(Last)) =>
                    WithCode(quote_locals.yielded, "A110") = <<>>

\* a docstring of two lines with a u prefix has been handled: one A112
C10_Witness ==
    /\ pc = "loop" /\ Last >= 1
    /\ quote_tokens[Last].kind = "STRING"
    /\ Docstring(Last) /\ MultiLine(Last) /\ UPrefixed(Last)
    /\ quote_locals.yielded = <<Error(quote_tokens[Last].start, "A112", <<>>)>>

====
